---- MODULE Spec2Model ----
(***************************************************************************)
(* httpkit: router composition (New / NewEmpty), the request               *)
(* instrumentation middlewares (metrics, tracing, cors), the               *)
(* status-capturing writer, and the server lifecycle (Start /              *)
(* GracefulShutdown).                                                      *)
(*                                                                         *)
(* Encoding of strings that are URL paths or route patterns: a path is     *)
(* the sequence of the segments that follow each "/".                      *)
(*   ""            <<>>                                                    *)
(*   "/"           <<"">>                                                  *)
(*   "/status"     <<"status">>                                            *)
(*   "/status/"    <<"status", "">>                                        *)
(*   "/users/{id}" <<"users", "{id}">>                                     *)
(* String concatenation of two such strings is sequence concatenation.     *)
(***************************************************************************)
EXTENDS Integers, Sequences, FiniteSets, TLC

\* ------------------------------------------------------------------ bounds
\* longest sequence of writer calls a business handler makes
MaxOps == 2
\* most sub-routers handed to New
MaxMounts == 1
\* status codes fed to GetStatus range over (0 - NegCodes) .. (600 + OverCodes)
NegCodes == 2
OverCodes == 2
\* server lifecycle: largest grace period, longest handler, widest gap
\* between two idle polls of Shutdown, most in-flight requests (time in ticks)
MaxGrace == 3
MaxWork == 3
MaxPollGap == 2
MaxInFlight == 1
\* most SIGINT/SIGTERM deliveries to the process
MaxSignals == 2

\* ------------------------------------------------------------ path strings
EmptyStr == <<>>
Root == <<"">>

EndsWithSlash(p) == Len(p) > 0 /\ p[Len(p)] = ""

\* len(path) > 1 for a path that begins with "/"
LongerThanOne(p) == Len(p) > 1 \/ (Len(p) = 1 /\ p[1] # "")

\* path[:len(path)-1] for a path ending in "/"
DropLastChar(p) == SubSeq(p, 1, Len(p) - 1)

\* pattern + "/" and pattern + "*" (the latter for a pattern ending in "/")
AddSlash(p) == Append(p, "")
AddStar(p) == Append(DropLastChar(p), "*")

IsParam(seg) == seg = "{id}"

\* fmt.Sprintf("%d", n)
Digit(d) == CASE d = 0 -> "0" [] d = 1 -> "1" [] d = 2 -> "2" [] d = 3 -> "3"
              [] d = 4 -> "4" [] d = 5 -> "5" [] d = 6 -> "6" [] d = 7 -> "7"
              [] d = 8 -> "8" [] d = 9 -> "9"

RECURSIVE Digits(_)
Digits(n) == IF n < 10 THEN Digit(n) ELSE Digits(n \div 10) \o Digit(n % 10)

SprintfD(n) == IF n < 0 THEN "-" \o Digits(0 - n) ELSE Digits(n)

\* --------------------------------------------------------- utils/path.go
OKStatusMsg == "0K"
ClientStatusMsg == "Client Error"
ServerStatusMsg == "Server Error"
DefaultrStatusMsg == "Unhandled Status"

invalidPaths == { <<"metrics">>, <<"status">>, <<"ready">>, <<"">>, <<"*">> }

\* the check with "/metrics" left out of the list
CheckInValidPathNoMetrics(path) == path \in (invalidPaths \ { <<"metrics">> })

\* CheckInValidPath(r), on r.URL.Path
CheckInValidPath(path) == path \in invalidPaths

\* GetStatus with the upper end of the success range included
GetStatusInclusive(StatusCode) ==
    IF StatusCode >= 200 /\ StatusCode <= 300
      THEN [code |-> "Ok", description |-> OKStatusMsg]
    ELSE IF StatusCode >= 400 /\ StatusCode < 500
      THEN [code |-> "Error", description |-> ClientStatusMsg]
    ELSE IF StatusCode >= 500
      THEN [code |-> "Error", description |-> ServerStatusMsg]
    ELSE [code |-> "Unset", description |-> DefaultrStatusMsg]

\* (sw *StatusWriter) GetStatus, on the StatusCode held
GetStatus(StatusCode) ==
    IF StatusCode >= 200 /\ StatusCode < 300
      THEN [code |-> "Ok", description |-> OKStatusMsg]
    ELSE IF StatusCode >= 400 /\ StatusCode < 500
      THEN [code |-> "Error", description |-> ClientStatusMsg]
    ELSE IF StatusCode >= 500
      THEN [code |-> "Error", description |-> ServerStatusMsg]
    ELSE [code |-> "Unset", description |-> DefaultrStatusMsg]

\* ------------------------------------------------- chi routing tree (Mux)
\* the nine methods chi registers for mALL
mALL == {"CONNECT", "DELETE", "GET", "HEAD", "OPTIONS", "PATCH", "POST", "PUT", "TRACE"}

EmptyTree == {}

\* mx.handle(methods, pattern, handler): the endpoint of every given method
\* on the pattern's node is set, replacing the one already there
Handle(tree, methods, pattern, handler) ==
    {e \in tree : ~(e.pattern = pattern /\ e.method \in methods)}
      \cup {[pattern |-> pattern, method |-> m, handler |-> handler] : m \in methods}

\* router.Get(pattern, handler)
Get(tree, pattern, handler) == Handle(tree, {"GET"}, pattern, handler)

\* Mount panics when pattern+"*" or pattern+"/*" is already routed
MountPanics(tree, pattern) ==
    \E e \in tree :
        \/ EndsWithSlash(pattern) /\ e.pattern = AddStar(pattern)
        \/ e.pattern = AddStar(AddSlash(pattern))

\* router.Mount(pattern, sub): for a pattern without a trailing slash the
\* mount handler is registered for every method on pattern and pattern+"/",
\* and always on pattern+"/*"
Mount(tree, pattern, sub) ==
    LET mh == [kind |-> "mount", sub |-> sub]
    IN IF EndsWithSlash(pattern)
         THEN Handle(tree, mALL, AddStar(pattern), mh)
         ELSE Handle(Handle(Handle(tree, mALL, pattern, mh),
                            mALL, AddSlash(pattern), mh),
                     mALL, AddStar(AddSlash(pattern)), mh)

\* does the pattern match the path, and how specific is the match
\* (the tree tries static edges, then parameters, then the catch-all)
IsCatchAll(pat) == Len(pat) > 0 /\ pat[Len(pat)] = "*"

SegMatch(ps, seg) == ps = seg \/ (IsParam(ps) /\ seg # "")

Matches(pat, path) ==
    IF IsCatchAll(pat)
      THEN /\ Len(path) >= Len(pat)
           /\ \A i \in 1..(Len(pat) - 1) : SegMatch(pat[i], path[i])
      ELSE /\ Len(path) = Len(pat)
           /\ \A i \in 1..Len(pat) : SegMatch(pat[i], path[i])

Rank(pat, path) ==
    IF pat = path THEN 0
    ELSE IF ~IsCatchAll(pat) THEN 1
    ELSE 2 + (Len(path) - Len(pat))

\* tree.FindRoute(rctx, method, routePath): the endpoint found, or none
FindRoute(tree, method, path) ==
    LET cands == {e \in tree : e.method = method /\ Matches(e.pattern, path)}
    IN IF cands = {}
         THEN [found |-> FALSE,
               methodNotAllowed |-> \E e \in tree : Matches(e.pattern, path)]
         ELSE LET best == CHOOSE e \in cands :
                            \A o \in cands : Rank(e.pattern, path) <= Rank(o.pattern, path)
              IN [found |-> TRUE, pattern |-> best.pattern, handler |-> best.handler]

\* mx.nextRoutePath: "/" + the value of the trailing "*" parameter
nextRoutePath(pat, path) ==
    IF IsCatchAll(pat) THEN SubSeq(path, Len(pat), Len(path)) ELSE Root

\* replaceWildcards: every "/*/" becomes "/"
replaceWildcards(p) ==
    LET keep == {i \in 1..Len(p) : ~(p[i] = "*" /\ i < Len(p))}
        F[i \in 0..Len(p)] ==
            IF i = 0 THEN <<>> ELSE IF i \in keep THEN Append(F[i - 1], p[i]) ELSE F[i - 1]
    IN F[Len(p)]

\* (x *Context) RoutePattern(): the joined patterns, wildcards replaced,
\* a trailing "//" and then a trailing "/" trimmed unless the result is "/"
RECURSIVE Join(_)
Join(strs) == IF strs = <<>> THEN EmptyStr ELSE Head(strs) \o Join(Tail(strs))

RoutePattern(RoutePatterns) ==
    LET joined == replaceWildcards(Join(RoutePatterns))
        t1 == IF Len(joined) >= 2 /\ joined[Len(joined)] = "" /\ joined[Len(joined) - 1] = ""
                THEN SubSeq(joined, 1, Len(joined) - 2) ELSE joined
        t2 == IF EndsWithSlash(t1) THEN DropLastChar(t1) ELSE t1
    IN IF joined = Root THEN joined ELSE t2

\* ----------------------------------------------------------- httpkit.go
\* the sub-router every SubDomain of the model carries:
\* GET "/" and GET "/{id}", both business handlers
UsersRouter == Get(Get(EmptyTree, Root, [kind |-> "business"]), <<"{id}">>, [kind |-> "business"])

Domains == { <<"users">>, Root, <<"ready">>, <<"status">> }

Origins == {"*", "https://a.example"}

RECURSIVE MountAll(_, _)
MountAll(tree, subdomains) ==
    IF subdomains = <<>> THEN tree
    ELSE MountAll(Mount(tree, Head(subdomains).Domain, Head(subdomains).Router), Tail(subdomains))

RECURSIVE MountAllPanics(_, _)
MountAllPanics(tree, subdomains) ==
    IF subdomains = <<>> THEN FALSE
    ELSE \/ MountPanics(tree, Head(subdomains).Domain)
         \/ MountAllPanics(Mount(tree, Head(subdomains).Domain, Head(subdomains).Router),
                           Tail(subdomains))

\* the three fixed endpoints
StatusRoutes ==
    Get(Get(Get(EmptyTree, Root, [kind |-> "GetStatus"]),
            <<"ready">>, [kind |-> "GetStatus"]),
        <<"status">>, [kind |-> "GetStatus"])

Opt(flag, name) == IF flag THEN <<name>> ELSE <<>>

\* New with cors registered ahead of the two observability middlewares
NewCorsOutermost(tracerEnable, metricsEnable, setCors, subdomains) ==
    [ctor |-> "New",
     middlewares |-> <<"StripSlashes">> \o Opt(setCors, "cors")
                       \o Opt(metricsEnable, "MetricsMiddleware")
                       \o Opt(tracerEnable, "TracingMiddleware") \o <<"RealIP">>,
     tree |-> MountAll(StatusRoutes, subdomains)]

\* New(port, tracerEnable, metricsEnable, setCors, corsAllowOrigins, subdomains...)
New(tracerEnable, metricsEnable, setCors, subdomains) ==
    [ctor |-> "New",
     middlewares |-> <<"StripSlashes">> \o Opt(metricsEnable, "MetricsMiddleware")
                       \o Opt(tracerEnable, "TracingMiddleware")
                       \o Opt(setCors, "cors") \o <<"RealIP">>,
     tree |-> MountAll(StatusRoutes, subdomains)]

\* NewEmpty(port, tracerEnable, metricsEnable)
NewEmpty(tracerEnable, metricsEnable) ==
    [ctor |-> "NewEmpty",
     middlewares |-> <<"StripSlashes">> \o Opt(tracerEnable, "TracingMiddleware")
                       \o Opt(metricsEnable, "MetricsMiddleware") \o <<"RealIP">>,
     tree |-> StatusRoutes]

\* the package variable CorsAllowOrigins after a call of New
\* (the zero value "" when no call has set it)
NewCorsAllowOrigins(old, setCors, corsAllowOrigins) ==
    IF setCors THEN corsAllowOrigins ELSE old

SubDomains == [Domain : Domains, Router : {UsersRouter}]

RECURSIVE SeqsUpTo(_, _)
SeqsUpTo(S, n) ==
    IF n = 0 THEN {<<>>}
    ELSE SeqsUpTo(S, n - 1) \cup {Append(s, x) : s \in {t \in SeqsUpTo(S, n - 1) : Len(t) = n - 1}, x \in S}

\* the argument lists of New whose construction does not panic
MountLists == {l \in SeqsUpTo(SubDomains, MaxMounts) : ~MountAllPanics(StatusRoutes, l)}

\* ------------------------------------------------------------------ state
VARIABLES
    CorsAllowOrigins,   \* the package variable
    corsArg,            \* setCors and corsAllowOrigins as passed to the call that built router
    router,             \* Handler.Router: middlewares and routing tree
    pc,                 \* where the request is: constructed, enter, route, handler, exit, done
    idx,                \* the middleware being entered or returned from
    req,                \* r.Method, r.URL.Path
    rctx,               \* chi routing context: RoutePath, RoutePatterns
    writers,            \* the StatusWriters wrapped around the response so far, outermost first
    resp,               \* the server's response: header map, what was sent to the client
    counterVec,         \* increments of requestsTotalByEndpointAndStatus, by label tuple
    histogramVec,       \* observations of requestDurationByEndpointAndStatus, by label tuple
    spans,              \* spans started by the tracer
    calls,              \* handlers invoked so far, each with the writer it was given
    ops,                \* writer calls the running endpoint handler still makes
    exit,               \* how the running endpoint handler ends: return or panic
    panicking,          \* a panic is propagating up the chain
    written             \* the calls made so far on the innermost writer

\* a StatusWriter on its own, for GetStatus
VARIABLES
    swStatusCode,       \* sw.StatusCode
    swStatus            \* what sw.GetStatus() returned, once called

\* server lifecycle (Handler.server, Start, GracefulShutdown)
VARIABLES
    startPc,            \* Start: idle, listening, serving, returned
    startErr,           \* what Start returned
    gsPc,               \* GracefulShutdown: idle, waiting (<-quit), check, select, returned
    gsErr,              \* what GracefulShutdown returned
    gracefulTimeout,    \* its argument, in ticks
    notified,           \* signal.Notify(quit, SIGINT, SIGTERM) is in force
    quit,               \* signals buffered in quit (capacity 1)
    alive,              \* the process has not been killed by an unhandled signal
    inShutdown,         \* server.inShutdown
    listener,           \* the listening socket: none, open, closed
    now,                \* the clock, in ticks
    deadline,           \* deadline of the context given to server.Shutdown
    nextPoll,           \* when Shutdown's poll timer fires next
    quitAt,             \* when the signal was taken from quit
    conns,              \* accepted connections, each serving one request
    signals,            \* SIGINT/SIGTERM deliveries so far
    shutdowns,          \* calls of server.Shutdown so far
    lnCloses,           \* times the listening socket itself was closed
    serveErr            \* what h.server.ListenAndServe() returned

logVars == <<signals, shutdowns, lnCloses, serveErr>>

\* one call of a helper of package utils, on a writer of its own
VARIABLES
    utilPc,             \* idle, running, returned
    utilFn,             \* the function called
    utilArgs,           \* its arguments
    utilRet             \* what it returns: value and error

utilVars == <<utilPc, utilFn, utilArgs, utilRet>>

lifeVars == <<startPc, startErr, gsPc, gsErr, gracefulTimeout, notified, quit, alive,
              inShutdown, listener, now, deadline, nextPoll, quitAt, conns,
              signals, shutdowns, lnCloses, serveErr>>

swVars == <<swStatusCode, swStatus>>

pipeVars == <<CorsAllowOrigins, corsArg, router, pc, idx, req, rctx, writers, resp,
              counterVec, histogramVec, spans, calls, ops, exit, panicking, written>>

\* ------------------------------------------- net/http response (the client's view)
Op(op, code, key, value) == [op |-> op, code |-> code, key |-> key, value |-> value]
WH(code) == Op("WriteHeader", code, "", "")
W(body) == Op("Write", 0, "", body)
HSet(key, value) == Op("Header.Set", 0, key, value)

HeaderNames == {"Access-Control-Allow-Origin", "Access-Control-Allow-Methods",
                "Access-Control-Allow-Headers", "Access-Control-Max-Age",
                "Content-Type", "X-Content-Type-Options"}

NoHeaders == [h \in HeaderNames |-> ""]

NewResponse == [header |-> NoHeaders, wroteHeader |-> FALSE, status |-> 0,
                sentHeader |-> NoHeaders, body |-> <<>>, informational |-> <<>>,
                aborted |-> FALSE]

bodyAllowedForStatus(status) ==
    ~(\/ (status >= 100 /\ status <= 199)
      \/ status = 204
      \/ status = 304)

\* (w *response) WriteHeader: a second call is ignored; a 1xx code other than
\* 101 is sent as an informational response and the header stays unwritten
baseWriteHeader(r, code) ==
    IF r.wroteHeader THEN r
    ELSE IF code >= 100 /\ code <= 199 /\ code # 101
      THEN [r EXCEPT !.informational = Append(@, code)]
    ELSE [r EXCEPT !.wroteHeader = TRUE, !.status = code, !.sentHeader = r.header]

\* (w *response) Write: an implicit WriteHeader(200) first
baseWrite(r, body) ==
    LET r1 == IF r.wroteHeader THEN r ELSE baseWriteHeader(r, 200)
    IN IF bodyAllowedForStatus(r1.status) THEN [r1 EXCEPT !.body = Append(@, body)] ELSE r1

baseHeaderSet(r, key, value) == [r EXCEPT !.header[key] = value]

\* a WriteHeader whose code is stored by the wrapper the handler was given
\* and by none of the wrappers around it
StatusWriterWriteHeaderInnermost(ws, code) ==
    [i \in DOMAIN ws |-> IF i = Len(ws) THEN [ws[i] EXCEPT !.StatusCode = code] ELSE ws[i]]

\* (sw *StatusWriter) WriteHeader on every wrapper between the caller and the
\* response: each stores the code, then forwards to the writer it wraps
StatusWriterWriteHeader(ws, code) == [i \in DOMAIN ws |-> [ws[i] EXCEPT !.StatusCode = code]]

\* &utils.StatusWriter{ResponseWriter: w}: StatusCode left at its zero value
NewStatusWriterZero(owner) == [owner |-> owner, StatusCode |-> 0]

\* &utils.StatusWriter{ResponseWriter: w, StatusCode: http.StatusOK}
NewStatusWriter(owner) == [owner |-> owner, StatusCode |-> 200]

\* the writer a handler is given: the owners of the wrappers around the response
WriterId(ws) == [i \in DOMAIN ws |-> ws[i].owner]

Owned(ws, owner) == {i \in DOMAIN ws : ws[i].owner = owner}

\* one call on the current writer
ApplyWriters(ws, o) == IF o.op = "WriteHeader" THEN StatusWriterWriteHeader(ws, o.code) ELSE ws

ApplyResp(r, o) ==
    CASE o.op = "WriteHeader" -> baseWriteHeader(r, o.code)
      [] o.op = "Write" -> baseWrite(r, o.value)
      [] o.op = "Header.Set" -> baseHeaderSet(r, o.key, o.value)

\* ------------------------------------------------------- endpoint handlers
ContentType == "Content-Type"
ApplicationJSON == "application/json; charset=utf-8"

\* json.Marshal(map[string]string{key: value})
JsonMarshalPair(key, value) == "{\"" \o key \o "\":\"" \o value \o "\"}"

\* utils.WriteJSON(w, statusCode, body)
WriteJSON(statusCode, body) == <<HSet(ContentType, ApplicationJSON), WH(statusCode), W(body)>>

\* httpkit.GetStatus: WriteBody(w, http.StatusOK, map[string]string{"message": "OK"})
GetStatusHandler == WriteJSON(200, JsonMarshalPair("message", "OK"))

\* http.NotFound, the router's default
NotFoundHandler == <<HSet(ContentType, "text/plain; charset=utf-8"),
                     HSet("X-Content-Type-Options", "nosniff"),
                     WH(404), W("404 page not found\n")>>

\* chi's default methodNotAllowedHandler
MethodNotAllowedHandler == <<WH(405), W("")>>

\* what a business handler may do with its writer
BusinessOps == {WH(404), WH(500), WH(302), W("b")}
Behaviours == SeqsUpTo(BusinessOps, MaxOps)

Methods == {"GET", "POST", "OPTIONS"}
Paths == { Root, <<"status">>, <<"ready">>, <<"metrics">>, <<"*">>,
           <<"users", "42">>, <<"status", "">>, <<"nosuch">> }

NoCorsArg == [setCors |-> FALSE, corsAllowOrigins |-> ""]
NoReq == [Method |-> "", Path |-> EmptyStr]
NoRctx == [RoutePath |-> EmptyStr, RoutePatterns |-> <<>>]

\* ------------------------------------------------------------------- Init
PipeInit ==
    /\ \E tracerEnable \in BOOLEAN, metricsEnable \in BOOLEAN :
         \/ \E setCors \in BOOLEAN, corsAllowOrigins \in Origins, subdomains \in MountLists :
              /\ router = New(tracerEnable, metricsEnable, setCors, subdomains)
              /\ CorsAllowOrigins = NewCorsAllowOrigins("", setCors, corsAllowOrigins)
              /\ corsArg = [setCors |-> setCors, corsAllowOrigins |-> corsAllowOrigins]
         \/ /\ router = NewEmpty(tracerEnable, metricsEnable)
            /\ CorsAllowOrigins = ""
            /\ corsArg = NoCorsArg
    /\ pc = "constructed"
    /\ idx = 0
    /\ req = NoReq
    /\ rctx = NoRctx
    /\ writers = <<>>
    /\ resp = NewResponse
    /\ counterVec = <<>>
    /\ histogramVec = <<>>
    /\ spans = <<>>
    /\ calls = <<>>
    /\ ops = <<>>
    /\ exit = "return"
    /\ panicking = FALSE
    /\ written = <<>>

\* ------------------------------------------------------ request pipeline
Entering(name) ==
    /\ pc = "enter"
    /\ idx <= Len(router.middlewares)
    /\ router.middlewares[idx] = name

Returning(name) ==
    /\ pc = "exit"
    /\ idx >= 1
    /\ router.middlewares[idx] = name

\* a handler is invoked with the writer the caller holds
Invoke(name) == Append(calls, [name |-> name, w |-> WriterId(writers)])

\* a further call of New in the same process, building another router: of
\* the state here it touches the package variable only
NewAgain(setCors, corsAllowOrigins) ==
    /\ CorsAllowOrigins' = NewCorsAllowOrigins(CorsAllowOrigins, setCors, corsAllowOrigins)
    /\ CorsAllowOrigins' # CorsAllowOrigins
    /\ UNCHANGED <<corsArg, router, pc, idx, req, rctx, writers, resp, counterVec,
                   histogramVec, spans, calls, ops, exit, panicking, written>>
    /\ UNCHANGED <<lifeVars, swVars, utilVars>>

\* (mx *Mux) ServeHTTP: a fresh routing context, then the middleware chain
Serve(method, path) ==
    /\ pc = "constructed"
    /\ req' = [Method |-> method, Path |-> path]
    /\ rctx' = NoRctx
    /\ pc' = "enter"
    /\ idx' = 1
    /\ UNCHANGED <<CorsAllowOrigins, corsArg, router, writers, resp, counterVec, histogramVec,
                   spans, calls, ops, exit, panicking, written>>
    /\ UNCHANGED <<lifeVars, swVars, utilVars>>

\* chimiddleware.StripSlashes: inside a Mux the routing context exists, so
\* the stripped path goes to rctx.RoutePath and r.URL.Path stays as it was
StripSlashes ==
    /\ Entering("StripSlashes")
    /\ LET path == IF rctx.RoutePath # EmptyStr THEN rctx.RoutePath ELSE req.Path
       IN rctx' = IF LongerThanOne(path) /\ EndsWithSlash(path)
                    THEN [rctx EXCEPT !.RoutePath = DropLastChar(path)]
                    ELSE rctx
    /\ calls' = Invoke("StripSlashes")
    /\ idx' = idx + 1
    /\ UNCHANGED <<CorsAllowOrigins, corsArg, router, pc, req, writers, resp, counterVec,
                   histogramVec, spans, ops, exit, panicking, written>>
    /\ UNCHANGED <<lifeVars, swVars, utilVars>>

\* MetricsMiddleware up to next.ServeHTTP
MetricsMiddleware ==
    /\ Entering("MetricsMiddleware")
    /\ writers' = IF CheckInValidPath(req.Path) THEN writers
                  ELSE Append(writers, NewStatusWriter("MetricsMiddleware"))
    /\ calls' = Invoke("MetricsMiddleware")
    /\ idx' = idx + 1
    /\ UNCHANGED <<CorsAllowOrigins, corsArg, router, pc, req, rctx, resp, counterVec,
                   histogramVec, spans, ops, exit, panicking, written>>
    /\ UNCHANGED <<lifeVars, swVars, utilVars>>

\* the labels with the raw path in place of the route pattern
LabelsRawPath(StatusCode, r, rc) ==
    [path |-> r.Path, method |-> r.Method, status |-> SprintfD(StatusCode)]

\* the label values of one observation
Labels(StatusCode, r, rc) ==
    [path |-> RoutePattern(rc.RoutePatterns), method |-> r.Method, status |-> SprintfD(StatusCode)]

\* MetricsMiddleware after next.ServeHTTP has returned: one Inc, one Observe.
\* A panic of the wrapped handler passes through without either.
MetricsObserve ==
    /\ Returning("MetricsMiddleware")
    /\ LET mine == Owned(writers, "MetricsMiddleware")
       IN IF mine = {} \/ panicking
            THEN UNCHANGED <<counterVec, histogramVec>>
            ELSE LET ww == writers[CHOOSE i \in mine : TRUE]
                 IN /\ counterVec' = Append(counterVec, Labels(ww.StatusCode, req, rctx))
                    /\ histogramVec' = Append(histogramVec, Labels(ww.StatusCode, req, rctx))
    /\ idx' = idx - 1
    /\ UNCHANGED <<CorsAllowOrigins, corsArg, router, pc, req, rctx, writers, resp, spans,
                   calls, ops, exit, panicking, written>>
    /\ UNCHANGED <<lifeVars, swVars, utilVars>>

\* tracer.Start(defaultCtx, r.URL.Path)
StartSpan(name) == [name |-> name, ended |-> 0, status |-> [code |-> "Unset", description |-> ""],
                    statusSet |-> FALSE, attributes |-> <<>>]

\* TracingMiddleware up to next.ServeHTTP
TracingMiddleware ==
    /\ Entering("TracingMiddleware")
    /\ IF CheckInValidPath(req.Path)
         THEN UNCHANGED <<writers, spans>>
         ELSE /\ writers' = Append(writers, NewStatusWriter("TracingMiddleware"))
              /\ spans' = Append(spans, StartSpan(req.Path))
    /\ calls' = Invoke("TracingMiddleware")
    /\ idx' = idx + 1
    /\ UNCHANGED <<CorsAllowOrigins, corsArg, router, pc, req, rctx, resp, counterVec,
                   histogramVec, ops, exit, panicking, written>>
    /\ UNCHANGED <<lifeVars, swVars, utilVars>>

\* getFullURL for a request without X-Forwarded-Proto
getFullURL(r) == [scheme |-> "http", RequestURI |-> r.Path]

\* span.SetStatus, span.SetName, span.SetAttributes after next.ServeHTTP
SpanAnnotate(span, StatusCode, r, rc) ==
    [span EXCEPT !.status = GetStatus(StatusCode),
                 !.statusSet = TRUE,
                 !.name = RoutePattern(rc.RoutePatterns),
                 !.attributes = <<[key |-> "extra_path", value |-> r.Path],
                                  [key |-> "http.status_code", value |-> StatusCode],
                                  [key |-> "http.method", value |-> r.Method],
                                  [key |-> "http.url", value |-> getFullURL(r)]>>]

\* span.End()
SpanEnd(span) == [span EXCEPT !.ended = @ + 1]

\* span.End() called after the annotations instead of deferred
SpanOnReturnNoDefer(span, StatusCode, r, rc, panics) ==
    IF panics THEN span ELSE SpanEnd(SpanAnnotate(span, StatusCode, r, rc))

\* the annotations made in a deferred function, so also during a panic
SpanOnReturnAnnotatesAlways(span, StatusCode, r, rc, panics) ==
    SpanEnd(SpanAnnotate(span, StatusCode, r, rc))

\* the span when TracingMiddleware returns: annotated unless a panic is
\* propagating, and ended by the deferred span.End() either way
SpanOnReturn(span, StatusCode, r, rc, panics) ==
    SpanEnd(IF panics THEN span ELSE SpanAnnotate(span, StatusCode, r, rc))

\* TracingMiddleware after next.ServeHTTP
TracingFinish ==
    /\ Returning("TracingMiddleware")
    /\ LET mine == Owned(writers, "TracingMiddleware")
       IN IF mine = {}
            THEN UNCHANGED spans
            ELSE LET ww == writers[CHOOSE i \in mine : TRUE]
                 IN spans' = [spans EXCEPT ![Len(spans)] =
                                 SpanOnReturn(@, ww.StatusCode, req, rctx, panicking)]
    /\ idx' = idx - 1
    /\ UNCHANGED <<CorsAllowOrigins, corsArg, router, pc, req, rctx, writers, resp, counterVec,
                   histogramVec, calls, ops, exit, panicking, written>>
    /\ UNCHANGED <<lifeVars, swVars, utilVars>>

\* the four headers cors sets
CorsHeaders(origin) ==
    <<HSet("Access-Control-Allow-Origin", origin),
      HSet("Access-Control-Allow-Methods", "GET, POST, PUT, DELETE, OPTIONS"),
      HSet("Access-Control-Allow-Headers", "Content-Type, Authorization, User-Address, Token"),
      HSet("Access-Control-Max-Age", "3600")>>

RECURSIVE ApplyAllResp(_, _)
ApplyAllResp(r, os) == IF os = <<>> THEN r ELSE ApplyAllResp(ApplyResp(r, Head(os)), Tail(os))

\* a StatusWriter whose WriteHeader stores the code and does not pass it on
ForwardDropsWriteHeader(ws, o) == IF ws # <<>> /\ o.op = "WriteHeader" THEN <<>> ELSE <<o>>

\* what reaches the server's response of a call made on the writer a handler
\* holds: WriteHeader is passed on by every StatusWriter with the same
\* code, Write and Header are the embedded writer's own
Forward(ws, o) == <<o>>

\* the preflight test against a method no request carries
CorsShortCircuitsNever(r) == r.Method = "OPTION"

\* does cors answer the request itself
CorsShortCircuits(r) == r.Method = "OPTIONS"

\* cors: the headers, then 204 for OPTIONS and the next handler otherwise
cors ==
    /\ Entering("cors")
    /\ calls' = Invoke("cors")
    /\ LET r1 == ApplyAllResp(resp, CorsHeaders(CorsAllowOrigins))
       IN IF CorsShortCircuits(req)
            THEN /\ resp' = ApplyAllResp(r1, Forward(writers, WH(204)))
                 /\ writers' = ApplyWriters(writers, WH(204))
                 /\ written' = written \o CorsHeaders(CorsAllowOrigins) \o <<WH(204)>>
                 /\ pc' = "exit"
                 /\ idx' = idx
            ELSE /\ resp' = r1
                 /\ written' = written \o CorsHeaders(CorsAllowOrigins)
                 /\ idx' = idx + 1
                 /\ UNCHANGED <<writers, pc>>
    /\ UNCHANGED <<CorsAllowOrigins, corsArg, router, req, rctx, counterVec, histogramVec,
                   spans, ops, exit, panicking>>
    /\ UNCHANGED <<lifeVars, swVars, utilVars>>

\* chimiddleware.RealIP: rewrites r.RemoteAddr from the forwarding headers,
\* which no handler of the package reads
RealIP ==
    /\ Entering("RealIP")
    /\ calls' = Invoke("RealIP")
    /\ idx' = idx + 1
    /\ UNCHANGED <<CorsAllowOrigins, corsArg, router, pc, req, rctx, writers, resp, counterVec,
                   histogramVec, spans, ops, exit, panicking, written>>
    /\ UNCHANGED <<lifeVars, swVars, utilVars>>

\* what the routing of a request ends in: the patterns recorded in the
\* routing context and the endpoint handler that runs
Dispatch(tree, method, path, rc) ==
    LET routePath == IF rc.RoutePath # EmptyStr THEN rc.RoutePath
                     ELSE IF path = EmptyStr THEN Root ELSE path
        f == FindRoute(tree, method, routePath)
        miss(r, pats) == [rctx |-> [rc EXCEPT !.RoutePath = r, !.RoutePatterns = pats],
                          handler |-> IF f.found THEN "NotFound"
                                      ELSE IF f.methodNotAllowed THEN "MethodNotAllowed"
                                      ELSE "NotFound"]
    IN IF ~f.found THEN miss(rc.RoutePath, rc.RoutePatterns)
       ELSE IF f.handler.kind # "mount"
         THEN [rctx |-> [rc EXCEPT !.RoutePatterns = Append(@, f.pattern)],
               handler |-> f.handler.kind]
       ELSE LET sub == nextRoutePath(f.pattern, routePath)
                pats == Append(rc.RoutePatterns, f.pattern)
                g == FindRoute(f.handler.sub, method, sub)
            IN IF g.found
                 THEN [rctx |-> [rc EXCEPT !.RoutePath = sub, !.RoutePatterns = Append(pats, g.pattern)],
                       handler |-> g.handler.kind]
                 ELSE [rctx |-> [rc EXCEPT !.RoutePath = sub, !.RoutePatterns = pats],
                       handler |-> IF g.methodNotAllowed THEN "MethodNotAllowed" ELSE "NotFound"]

\* mx.routeHTTP: the endpoint is looked up and invoked; a business handler's
\* behaviour is the input
routeHTTP ==
    /\ pc = "enter"
    /\ idx = Len(router.middlewares) + 1
    /\ LET d == Dispatch(router.tree, req.Method, req.Path, rctx)
       IN /\ rctx' = d.rctx
          /\ calls' = Invoke(d.handler)
          /\ CASE d.handler = "GetStatus" -> ops' = GetStatusHandler /\ exit' = "return"
               [] d.handler = "NotFound" -> ops' = NotFoundHandler /\ exit' = "return"
               [] d.handler = "MethodNotAllowed" -> ops' = MethodNotAllowedHandler /\ exit' = "return"
               [] d.handler = "business" -> ops' \in Behaviours /\ exit' \in {"return", "panic"}
    /\ pc' = "handler"
    /\ UNCHANGED <<CorsAllowOrigins, corsArg, router, idx, req, writers, resp, counterVec,
                   histogramVec, spans, panicking, written>>
    /\ UNCHANGED <<lifeVars, swVars, utilVars>>

\* the endpoint handler makes its next call on the writer it was given
HandlerStep ==
    /\ pc = "handler"
    /\ ops # <<>>
    /\ writers' = ApplyWriters(writers, Head(ops))
    /\ resp' = ApplyAllResp(resp, Forward(writers, Head(ops)))
    /\ written' = Append(written, Head(ops))
    /\ ops' = Tail(ops)
    /\ UNCHANGED <<CorsAllowOrigins, corsArg, router, pc, idx, req, rctx, counterVec,
                   histogramVec, spans, calls, exit, panicking>>
    /\ UNCHANGED <<lifeVars, swVars, utilVars>>

\* the endpoint handler returns or panics
HandlerExit ==
    /\ pc = "handler"
    /\ ops = <<>>
    /\ panicking' = (exit = "panic")
    /\ pc' = "exit"
    /\ idx' = Len(router.middlewares)
    /\ UNCHANGED <<CorsAllowOrigins, corsArg, router, req, rctx, writers, resp, counterVec,
                   histogramVec, spans, calls, ops, exit, written>>
    /\ UNCHANGED <<lifeVars, swVars, utilVars>>

\* StripSlashes, cors and RealIP do nothing after their next handler
Unwind ==
    /\ \/ Returning("StripSlashes")
       \/ Returning("cors")
       \/ Returning("RealIP")
    /\ idx' = idx - 1
    /\ UNCHANGED <<CorsAllowOrigins, corsArg, router, pc, req, rctx, writers, resp, counterVec,
                   histogramVec, spans, calls, ops, exit, panicking, written>>
    /\ UNCHANGED <<lifeVars, swVars, utilVars>>

\* net/http after the server's Handler: a response never started gets 200;
\* a panic is recovered by the connection's goroutine and the connection closed
finishRequest ==
    /\ pc = "exit"
    /\ idx = 0
    /\ resp' = IF panicking THEN [resp EXCEPT !.aborted = TRUE]
               ELSE IF resp.wroteHeader THEN resp ELSE baseWriteHeader(resp, 200)
    /\ pc' = "done"
    /\ UNCHANGED <<CorsAllowOrigins, corsArg, router, idx, req, rctx, writers, counterVec,
                   histogramVec, spans, calls, ops, exit, panicking, written>>
    /\ UNCHANGED <<lifeVars, swVars, utilVars>>

\* no StatusWriter is under test
SwIdle ==
    /\ swStatusCode = 200
    /\ swStatus = [code |-> "", description |-> ""]

\* the lifecycle variables of a handle that is only asked to route
LifeIdle ==
    /\ startPc = "idle"
    /\ startErr = "nil"
    /\ gsPc = "idle"
    /\ gsErr = "nil"
    /\ gracefulTimeout = 0
    /\ notified = FALSE
    /\ quit = 0
    /\ alive = TRUE
    /\ inShutdown = FALSE
    /\ listener = "none"
    /\ now = 0
    /\ deadline = 0
    /\ nextPoll = 0
    /\ quitAt = 0
    /\ conns = <<>>
    /\ signals = 0
    /\ shutdowns = 0
    /\ lnCloses = 0
    /\ serveErr = "nil"

NoBody == [t |-> "none"]
NoArgs == [statusCode |-> 0, body |-> NoBody, param |-> "", raw |-> <<>>]
NoRet == [value |-> [t |-> "none"], err |-> "nil"]

\* no helper is under test
UtilIdle ==
    /\ utilPc = "idle"
    /\ utilFn = ""
    /\ utilArgs = NoArgs
    /\ utilRet = NoRet

vars == <<CorsAllowOrigins, corsArg, router, pc, idx, req, rctx, writers, resp, counterVec,
          histogramVec, spans, calls, ops, exit, panicking, written,
          swStatusCode, swStatus,
          startPc, startErr, gsPc, gsErr, gracefulTimeout, notified, quit, alive,
          inShutdown, listener, now, deadline, nextPoll, quitAt, conns,
          signals, shutdowns, lnCloses, serveErr,
          utilPc, utilFn, utilArgs, utilRet>>

Init == PipeInit /\ LifeIdle /\ SwIdle /\ UtilIdle

Next ==
    \/ \E method \in Methods, path \in Paths : Serve(method, path)
    \/ StripSlashes
    \/ MetricsMiddleware
    \/ TracingMiddleware
    \/ cors
    \/ RealIP
    \/ routeHTTP
    \/ HandlerStep
    \/ HandlerExit
    \/ MetricsObserve
    \/ TracingFinish
    \/ Unwind
    \/ finishRequest

Spec == Init /\ [][Next]_vars

\* ------------------------- several routers in one process, CORS enabled
\* the router under test is built by New with setCors, with /users mounted
InitCors ==
    /\ Init
    /\ corsArg.setCors
    /\ \E tracerEnable \in BOOLEAN, metricsEnable \in BOOLEAN :
          router = New(tracerEnable, metricsEnable, TRUE,
                       <<[Domain |-> <<"users">>, Router |-> UsersRouter]>>)

\* further calls of New may come at any time, also while a request runs
NextCors ==
    \/ \E setCors \in BOOLEAN, corsAllowOrigins \in Origins : NewAgain(setCors, corsAllowOrigins)
    \/ Next

SpecCors == InitCors /\ [][NextCors]_vars

\* ------------------------------------------- a StatusWriter on its own
\* any int can be stored in the exported field
StatusCodes == (0 - NegCodes)..(600 + OverCodes)

NotCalled == [code |-> "", description |-> ""]

\* &StatusWriter{StatusCode: code}, or sw.StatusCode = code
StoreStatusCode(code) ==
    /\ swStatusCode' = code
    /\ swStatus' = NotCalled
    /\ UNCHANGED <<pipeVars, lifeVars, utilVars>>

\* sw.GetStatus()
CallGetStatus ==
    /\ swStatus = NotCalled
    /\ swStatus' = GetStatus(swStatusCode)
    /\ UNCHANGED <<swStatusCode, pipeVars, lifeVars, utilVars>>

\* the router is constructed and left alone
PipeIdle ==
    /\ router = NewEmpty(FALSE, FALSE)
    /\ CorsAllowOrigins = ""
    /\ corsArg = NoCorsArg
    /\ pc = "constructed"
    /\ idx = 0
    /\ req = NoReq
    /\ rctx = NoRctx
    /\ writers = <<>>
    /\ resp = NewResponse
    /\ counterVec = <<>>
    /\ histogramVec = <<>>
    /\ spans = <<>>
    /\ calls = <<>>
    /\ ops = <<>>
    /\ exit = "return"
    /\ panicking = FALSE
    /\ written = <<>>

InitStatus ==
    /\ swStatusCode \in StatusCodes
    /\ swStatus = NotCalled
    /\ PipeIdle
    /\ LifeIdle
    /\ UtilIdle

NextStatus ==
    \/ \E code \in StatusCodes : StoreStatusCode(code)
    \/ CallGetStatus

SpecStatus == InitStatus /\ [][NextStatus]_vars

\* ---- C3
\* the tier a result of GetStatus stands for
Tier(st) ==
    CASE st.code = "Ok" -> "success"
      [] st.code = "Error" /\ st.description = "Client Error" -> "client-error"
      [] st.code = "Error" /\ st.description = "Server Error" -> "server-error"
      [] st.code = "Unset" -> "unclassified"
      [] OTHER -> "none"

\* C3: GetStatus classifies the stored code c as success iff 200 <= c < 300,
\* client-error iff 400 <= c < 500, server-error iff c >= 500, and
\* unclassified for every other value.
C3_Classification ==
    swStatus # NotCalled =>
        LET c == swStatusCode
            t == Tier(swStatus)
        IN /\ t \in {"success", "client-error", "server-error", "unclassified"}
           /\ t = "success" <=> (200 <= c /\ c < 300)
           /\ t = "client-error" <=> (400 <= c /\ c < 500)
           /\ t = "server-error" <=> c >= 500
           /\ t = "unclassified" <=> (c < 200 \/ (300 <= c /\ c < 400))

C3_Witness ==
    /\ swStatusCode = 0
    /\ swStatus # NotCalled
    /\ Tier(swStatus) = "unclassified"


\* ------------------------------------------------------- server lifecycle
\* the clock stops here
MaxTime == MaxGrace + MaxWork + MaxPollGap

Active(cs) == {i \in DOMAIN cs : cs[i].state = "active"}

\* the work of a handler that never returns
Hangs == MaxWork + 1

\* Close of the listener a Serve loop holds: the socket is closed by the
\* first call only
onceClose(ln, n) ==
    IF ln = "open" THEN [listener |-> "closed", lnCloses |-> n + 1]
    ELSE [listener |-> ln, lnCloses |-> n]

\* Start that returns whatever ListenAndServe returned
StartErrUnfiltered(err) == err

\* Start's result: ErrServerClosed is returned as nil, any other error as it is
StartErr(err) == IF err # "nil" /\ err # "http: Server closed" THEN err ELSE "nil"

\* (h *Handler) Start, ListenAndServe up to net.Listen: it fails at once on a
\* server already shut down (ErrServerClosed) or when the address cannot be
\* bound
Start(bindOk) ==
    /\ alive
    /\ startPc = "idle"
    /\ IF inShutdown
         THEN /\ startPc' = "returned"
              /\ serveErr' = "http: Server closed"
              /\ startErr' = StartErr("http: Server closed")
              /\ UNCHANGED listener
         ELSE IF bindOk
           THEN /\ startPc' = "listening"
                /\ listener' = "open"
                /\ UNCHANGED <<startErr, serveErr>>
           ELSE /\ startPc' = "returned"
                /\ serveErr' = "listen error"
                /\ startErr' = StartErr("listen error")
                /\ UNCHANGED listener
    /\ UNCHANGED <<gsPc, gsErr, gracefulTimeout, notified, quit, alive, inShutdown,
                   now, deadline, nextPoll, quitAt, conns>>
    /\ UNCHANGED <<pipeVars, swVars, utilVars, signals, shutdowns, lnCloses>>

\* ListenAndServe from Serve on: the listener is registered with the server
\* and the accept loop begins, unless the server was shut down meanwhile:
\* then Serve closes its listener and returns ErrServerClosed
StartServe ==
    /\ alive
    /\ startPc = "listening"
    /\ IF inShutdown
         THEN /\ startPc' = "returned"
              /\ serveErr' = "http: Server closed"
              /\ startErr' = StartErr("http: Server closed")
              /\ listener' = onceClose(listener, lnCloses).listener
              /\ lnCloses' = onceClose(listener, lnCloses).lnCloses
         ELSE /\ startPc' = "serving"
              /\ UNCHANGED <<startErr, listener, lnCloses, serveErr>>
    /\ UNCHANGED <<gsPc, gsErr, gracefulTimeout, notified, quit, alive, inShutdown,
                   now, deadline, nextPoll, quitAt, conns, signals, shutdowns>>
    /\ UNCHANGED <<pipeVars, swVars, utilVars>>

\* Serve's Accept fails on the listener Shutdown closed: Serve closes its
\* listener once more on the way out and returns ErrServerClosed, which
\* Start turns into nil
StartReturns ==
    /\ alive
    /\ startPc = "serving"
    /\ listener = "closed"
    /\ startPc' = "returned"
    /\ serveErr' = "http: Server closed"
    /\ startErr' = StartErr("http: Server closed")
    /\ listener' = onceClose(listener, lnCloses).listener
    /\ lnCloses' = onceClose(listener, lnCloses).lnCloses
    /\ UNCHANGED <<gsPc, gsErr, gracefulTimeout, notified, quit, alive, inShutdown,
                   now, deadline, nextPoll, quitAt, conns, signals, shutdowns>>
    /\ UNCHANGED <<pipeVars, swVars, utilVars>>

\* a connection is accepted and its request's handler starts; it needs
\* `work` ticks, or never returns (work = Hangs)
Accept(work) ==
    /\ alive
    /\ startPc = "serving"
    /\ listener = "open"
    /\ Len(conns) < MaxInFlight
    /\ conns' = Append(conns, [state |-> "active", left |-> work, doneAt |-> 0 - 1])
    /\ UNCHANGED <<startPc, startErr, gsPc, gsErr, gracefulTimeout, notified, quit, alive,
                   inShutdown, listener, now, deadline, nextPoll, quitAt>>
    /\ UNCHANGED <<pipeVars, swVars, utilVars>>
    /\ UNCHANGED logVars

\* a handler returns: the connection goes idle, or is closed by its own
\* goroutine when the server is shutting down
HandlerDone(i) ==
    /\ alive
    /\ i \in Active(conns)
    /\ conns[i].left = 0
    /\ conns' = [conns EXCEPT ![i].state = IF inShutdown THEN "closed" ELSE "idle",
                              ![i].doneAt = now]
    /\ UNCHANGED <<startPc, startErr, gsPc, gsErr, gracefulTimeout, notified, quit, alive,
                   inShutdown, listener, now, deadline, nextPoll, quitAt>>
    /\ UNCHANGED <<pipeVars, swVars, utilVars>>
    /\ UNCHANGED logVars

\* GracefulShutdown up to <-quit: signal.Notify(quit, SIGINT, SIGTERM);
\* the context passed in is context.Background()
GracefulShutdown(timeout) ==
    /\ alive
    /\ gsPc = "idle"
    /\ gsPc' = "waiting"
    /\ notified' = TRUE
    /\ gracefulTimeout' = timeout
    /\ UNCHANGED <<startPc, startErr, gsErr, quit, alive, inShutdown, listener, now,
                   deadline, nextPoll, quitAt, conns>>
    /\ UNCHANGED <<pipeVars, swVars, utilVars>>
    /\ UNCHANGED logVars

\* SIGINT or SIGTERM is delivered: buffered in quit (capacity 1, a further
\* one is dropped), or fatal to a process that has not called Notify
Signal ==
    /\ alive
    /\ signals < MaxSignals
    /\ signals' = signals + 1
    /\ IF notified
         THEN quit' = (IF quit < 1 THEN quit + 1 ELSE quit) /\ UNCHANGED alive
         ELSE alive' = FALSE /\ UNCHANGED quit
    /\ UNCHANGED <<startPc, startErr, gsPc, gsErr, gracefulTimeout, notified, inShutdown,
                   listener, now, deadline, nextPoll, quitAt, conns, shutdowns, lnCloses, serveErr>>
    /\ UNCHANGED <<pipeVars, swVars, utilVars>>

\* context.WithTimeout with a duration of seconds instead of
\* gracefulTimeout seconds: the deadline is reached at once
DeadlineUnscaled(t, timeout) == t

\* context.WithTimeout(ctx, time.Duration(gracefulTimeout)*time.Second)
Deadline(t, timeout) == t + timeout

\* GracefulShutdown without the receive from quit: Shutdown is begun as soon
\* as Notify is in force
ReceiveQuitNoWait ==
    /\ alive
    /\ gsPc = "waiting"
    /\ quit' = 0
    /\ quitAt' = now
    /\ deadline' = Deadline(now, gracefulTimeout)
    /\ inShutdown' = TRUE
    /\ shutdowns' = shutdowns + 1
    /\ listener' = IF startPc = "serving" THEN onceClose(listener, lnCloses).listener
                    ELSE listener
    /\ lnCloses' = IF startPc = "serving" THEN onceClose(listener, lnCloses).lnCloses
                    ELSE lnCloses
    /\ gsPc' = "check"
    /\ UNCHANGED <<startPc, startErr, gsErr, gracefulTimeout, notified, alive, now,
                   nextPoll, conns>>
    /\ UNCHANGED <<pipeVars, swVars, utilVars, signals, serveErr>>

\* GracefulShutdown receiving in a loop (for range quit): every buffered
\* signal starts server.Shutdown again
ReceiveQuitEverySignal ==
    /\ alive
    /\ gsPc \in {"waiting", "select", "returned"}
    /\ quit > 0
    /\ quit' = quit - 1
    /\ quitAt' = now
    /\ deadline' = Deadline(now, gracefulTimeout)
    /\ inShutdown' = TRUE
    /\ shutdowns' = shutdowns + 1
    /\ listener' = IF startPc = "serving" THEN onceClose(listener, lnCloses).listener
                    ELSE listener
    /\ lnCloses' = IF startPc = "serving" THEN onceClose(listener, lnCloses).lnCloses
                    ELSE lnCloses
    /\ gsPc' = "check"
    /\ UNCHANGED <<startPc, startErr, gsErr, gracefulTimeout, notified, alive, now,
                   nextPoll, conns>>
    /\ UNCHANGED <<pipeVars, swVars, utilVars, signals, serveErr>>

\* <-quit, then server.Shutdown(ctx) up to its polling loop: inShutdown is
\* set and the listener of the running Serve loop closed
ReceiveQuit ==
    /\ alive
    /\ gsPc = "waiting"
    /\ quit > 0
    /\ quit' = quit - 1
    /\ quitAt' = now
    /\ deadline' = Deadline(now, gracefulTimeout)
    /\ inShutdown' = TRUE
    /\ shutdowns' = shutdowns + 1
    /\ listener' = IF startPc = "serving" THEN onceClose(listener, lnCloses).listener
                    ELSE listener
    /\ lnCloses' = IF startPc = "serving" THEN onceClose(listener, lnCloses).lnCloses
                    ELSE lnCloses
    /\ gsPc' = "check"
    /\ UNCHANGED <<startPc, startErr, gsErr, gracefulTimeout, notified, alive, now,
                   nextPoll, conns>>
    /\ UNCHANGED <<pipeVars, swVars, utilVars, signals, serveErr>>

\* Shutdown's loop, entered once the Serve loops have returned
\* (listenerGroup.Wait); srv.closeIdleConns(): idle connections are closed;
\* with none active Shutdown returns nil, else it waits for the poll timer
\* or the context
ShutdownPoll(gap) ==
    /\ alive
    /\ gsPc = "check"
    /\ startPc # "serving"
    /\ conns' = [i \in DOMAIN conns |->
                   IF conns[i].state = "idle" THEN [conns[i] EXCEPT !.state = "closed"]
                   ELSE conns[i]]
    /\ IF Active(conns) = {}
         THEN gsPc' = "returned" /\ gsErr' = "nil" /\ UNCHANGED nextPoll
         ELSE gsPc' = "select" /\ nextPoll' = now + gap /\ UNCHANGED gsErr
    /\ UNCHANGED <<startPc, startErr, gracefulTimeout, notified, quit, alive, inShutdown,
                   listener, now, deadline, quitAt>>
    /\ UNCHANGED <<pipeVars, swVars, utilVars>>
    /\ UNCHANGED logVars

\* Shutdown given a context that is never done (the caller's
\* context.Background() instead of the one with the timeout)
CtxDoneNever(t, d) == FALSE

\* ctx.Done() of the context with the timeout is closed from the deadline on
CtxDone(t, d) == t >= d

\* Shutdown's select, case <-timer.C
ShutdownTimer ==
    /\ alive
    /\ gsPc = "select"
    /\ now >= nextPoll
    /\ gsPc' = "check"
    /\ UNCHANGED <<startPc, startErr, gsErr, gracefulTimeout, notified, quit, alive,
                   inShutdown, listener, now, deadline, nextPoll, quitAt, conns>>
    /\ UNCHANGED <<pipeVars, swVars, utilVars>>
    /\ UNCHANGED logVars

\* Shutdown's select, case <-ctx.Done(): it returns ctx.Err() and leaves the
\* active connections as they are; GracefulShutdown returns that error
ShutdownDeadline ==
    /\ alive
    /\ gsPc = "select"
    /\ CtxDone(now, deadline)
    /\ gsPc' = "returned"
    /\ gsErr' = "context deadline exceeded"
    /\ UNCHANGED <<startPc, startErr, gracefulTimeout, notified, quit, alive, inShutdown,
                   listener, now, deadline, nextPoll, quitAt, conns>>
    /\ UNCHANGED <<pipeVars, swVars, utilVars>>
    /\ UNCHANGED logVars

\* time passes: no handler that is finished, no buffered signal and no
\* timer that has fired is kept waiting; the clock stops at MaxTime, or at
\* the deadline of a Shutdown still waiting then
Tick ==
    /\ alive
    /\ now < MaxTime \/ (gsPc = "select" /\ now < deadline)
    /\ \A i \in Active(conns) : conns[i].left > 0
    /\ ~(gsPc = "waiting" /\ quit > 0)
    /\ gsPc # "check"
    /\ gsPc = "select" => (now < nextPoll /\ ~CtxDone(now, deadline))
    /\ now' = now + 1
    /\ conns' = [i \in DOMAIN conns |->
                   IF conns[i].state = "active" /\ conns[i].left # Hangs
                     THEN [conns[i] EXCEPT !.left = @ - 1]
                   ELSE conns[i]]
    /\ UNCHANGED <<startPc, startErr, gsPc, gsErr, gracefulTimeout, notified, quit, alive,
                   inShutdown, listener, deadline, nextPoll, quitAt>>
    /\ UNCHANGED <<pipeVars, swVars, utilVars>>
    /\ UNCHANGED logVars

InitLife == LifeIdle /\ PipeIdle /\ SwIdle /\ UtilIdle

NextLife ==
    \/ \E bindOk \in BOOLEAN : Start(bindOk)
    \/ StartServe
    \/ StartReturns
    \/ \E work \in 1..Hangs : Accept(work)
    \/ \E i \in 1..MaxInFlight : HandlerDone(i)
    \/ \E timeout \in 0..MaxGrace : GracefulShutdown(timeout)
    \/ Signal
    \/ ReceiveQuit
    \/ \E gap \in 1..MaxPollGap : ShutdownPoll(gap)
    \/ ShutdownTimer
    \/ ShutdownDeadline
    \/ Tick

SpecLife == InitLife /\ [][NextLife]_vars

\* the goroutines of Start and GracefulShutdown are scheduled, timers fire,
\* time passes, and a handler whose work is done returns (one that hangs
\* never does)
FairLife ==
    /\ WF_vars(StartServe)
    /\ WF_vars(StartReturns)
    /\ WF_vars(ReceiveQuit)
    /\ WF_vars(\E gap \in 1..MaxPollGap : ShutdownPoll(gap))
    /\ WF_vars(ShutdownTimer)
    /\ WF_vars(ShutdownDeadline)
    /\ WF_vars(\E i \in 1..MaxInFlight : HandlerDone(i))
    /\ WF_vars(Tick)

SpecLifeFair == SpecLife /\ FairLife

\* ------------------------------------------------------- utils/utils.go
FaultCodeInternalServerError == "internal_server_error"
InvalidParam == "invalid_param"

\* the values handed to WriteBody
Bodies == { [t |-> "struct", ID |-> 1, Name |-> "example"],
            [t |-> "string", s |-> "hello"],
            [t |-> "int", n |-> 12],
            [t |-> "float", f |-> "1.5"],
            [t |-> "float", f |-> "+Inf"],
            [t |-> "float", f |-> "NaN"] }

\* json.Marshal(body): the encoding, or the encoder's error
jsonMarshal(body) ==
    CASE body.t = "struct" ->
           [result |-> "{\"ID\":" \o SprintfD(body.ID) \o ",\"Name\":\"" \o body.Name \o "\"}",
            err |-> "nil"]
      [] body.t = "string" -> [result |-> "\"" \o body.s \o "\"", err |-> "nil"]
      [] body.t = "int" -> [result |-> SprintfD(body.n), err |-> "nil"]
      [] body.t = "float" ->
           IF body.f \in {"+Inf", "-Inf", "NaN"}
             THEN [result |-> "", err |-> "json: unsupported value: " \o body.f]
             ELSE [result |-> body.f, err |-> "nil"]

\* json.NewEncoder(w).Encode(response) of Fault's map: keys in sorted order,
\* a newline at the end, one Write
EncodeFault(code, message) ==
    "{\"code\":\"" \o code \o "\",\"message\":\"" \o message
        \o "\",\"msg\":\"" \o message \o "\"}\n"

\* Fault(w, httpStatus, code, message): the calls it makes on w
Fault(httpStatus, code, message) ==
    <<HSet(ContentType, ApplicationJSON), WH(httpStatus), W(EncodeFault(code, message))>>

\* WriteBody that writes the status before it encodes the body
WriteBodyStatusFirst(statusCode, body) ==
    LET m == jsonMarshal(body)
    IN IF m.err # "nil"
         THEN [ops |-> <<WH(statusCode)>> \o Fault(500, FaultCodeInternalServerError, m.err),
               value |-> [t |-> "none"], err |-> m.err]
         ELSE [ops |-> WriteJSON(statusCode, m.result), value |-> [t |-> "none"], err |-> "nil"]

\* WriteBody(w, statusCode, body): the calls it makes on w and its result
WriteBody(statusCode, body) ==
    LET m == jsonMarshal(body)
    IN IF m.err # "nil"
         THEN [ops |-> Fault(500, FaultCodeInternalServerError, m.err),
               value |-> [t |-> "none"], err |-> m.err]
         ELSE [ops |-> WriteJSON(statusCode, m.result), value |-> [t |-> "none"], err |-> "nil"]

\* ---- strconv and uuid, on strings given as sequences of characters
DecDigits == <<"0", "1", "2", "3", "4", "5", "6", "7", "8", "9">>
IsDigit(c) == \E i \in DOMAIN DecDigits : DecDigits[i] = c
DigitVal(c) == (CHOOSE i \in DOMAIN DecDigits : DecDigits[i] = c) - 1
IsHex(c) == IsDigit(c) \/ c \in {"a", "b", "c", "d", "e", "f", "A", "B", "C", "D", "E", "F"}

RECURSIVE DigitsVal(_)
DigitsVal(cs) ==
    IF cs = <<>> THEN 0 ELSE DigitsVal(SubSeq(cs, 1, Len(cs) - 1)) * 10 + DigitVal(cs[Len(cs)])

RECURSIVE Pow10(_)
Pow10(n) == IF n = 0 THEN 1 ELSE 10 * Pow10(n - 1)

Signed(cs) == cs # <<>> /\ cs[1] \in {"+", "-"}
Unsigned(cs) == IF Signed(cs) THEN Tail(cs) ELSE cs
Sign(cs) == IF cs # <<>> /\ cs[1] = "-" THEN 0 - 1 ELSE 1

\* strconv.Atoi, for values that fit an int
Atoi(cs) ==
    LET ds == Unsigned(cs)
    IN IF ds = <<>> \/ \E i \in DOMAIN ds : ~IsDigit(ds[i])
         THEN [ok |-> FALSE, n |-> 0]
         ELSE [ok |-> TRUE, n |-> Sign(cs) * DigitsVal(ds)]

\* strconv.ParseFloat(s, 64), for the decimal forms without an exponent and
\* for nan, inf and infinity; a finite value is num / den
ParseFloat(cs) ==
    LET ds == Unsigned(cs)
        dots == {i \in DOMAIN ds : ds[i] = "."}
        dot == IF dots = {} THEN Len(ds) + 1 ELSE CHOOSE i \in dots : TRUE
        int == SubSeq(ds, 1, dot - 1)
        frac == SubSeq(ds, dot + 1, Len(ds))
    IN IF ds \in {<<"i", "n", "f">>, <<"I", "n", "f">>,
                   <<"i", "n", "f", "i", "n", "i", "t", "y">>}
         THEN [ok |-> TRUE, special |-> IF Sign(cs) < 0 THEN "-Inf" ELSE "+Inf", num |-> 0, den |-> 1]
       ELSE IF cs \in {<<"n", "a", "n">>, <<"N", "a", "N">>}
         THEN [ok |-> TRUE, special |-> "NaN", num |-> 0, den |-> 1]
       ELSE IF \/ Cardinality(dots) > 1
               \/ int \o frac = <<>>
               \/ (\E i \in DOMAIN int : ~IsDigit(int[i]))
               \/ (\E j \in DOMAIN frac : ~IsDigit(frac[j]))
         THEN [ok |-> FALSE, special |-> "", num |-> 0, den |-> 1]
       ELSE [ok |-> TRUE, special |-> "",
             num |-> Sign(cs) * DigitsVal(int \o frac), den |-> Pow10(Len(frac))]

\* uuid.Parse, for the 36-character form and for strings of a length it
\* does not accept
uuidParse(cs) ==
    IF Len(cs) \notin {32, 36, 38, 45}
      THEN [ok |-> FALSE, err |-> "invalid UUID length: " \o SprintfD(Len(cs))]
    ELSE IF /\ Len(cs) = 36
            /\ (\A i \in {9, 14, 19, 24} : cs[i] = "-")
            /\ (\A j \in (1..36) \ {9, 14, 19, 24} : IsHex(cs[j]))
      THEN [ok |-> TRUE, err |-> "nil"]
    ELSE [ok |-> FALSE, err |-> "invalid UUID format"]

Int64(n) == [t |-> "int64", n |-> n]
Float64(p) == [t |-> "float64", special |-> p.special, num |-> p.num, den |-> p.den]
UUID(cs) == [t |-> "uuid", u |-> cs]
NilUUID == [t |-> "uuid", u |-> <<>>]

\* ParseIDParam that reports a missing parameter without writing the fault
ParseIDParamSilentOnMissing(param, raw) ==
    IF raw = <<>>
      THEN [ops |-> <<>>, value |-> Int64(0), err |-> "parameter nof found"]
    ELSE IF ~Atoi(raw).ok
      THEN [ops |-> Fault(400, InvalidParam, param \o " is invalid type"),
            value |-> Int64(0), err |-> "parameter invalid"]
    ELSE [ops |-> <<>>, value |-> Int64(Atoi(raw).n), err |-> "nil"]

\* ParseIDParam(w, r, param), raw being chi.URLParam(r, param)
ParseIDParam(param, raw) ==
    IF raw = <<>>
      THEN [ops |-> Fault(400, InvalidParam, param \o " was not not found"),
            value |-> Int64(0), err |-> "parameter nof found"]
    ELSE IF ~Atoi(raw).ok
      THEN [ops |-> Fault(400, InvalidParam, param \o " is invalid type"),
            value |-> Int64(0), err |-> "parameter invalid"]
    ELSE [ops |-> <<>>, value |-> Int64(Atoi(raw).n), err |-> "nil"]

\* ParseFloatParam(w, r, param), raw being chi.URLParam(r, param)
ParseFloatParam(param, raw) ==
    IF raw = <<>>
      THEN [ops |-> Fault(400, InvalidParam, param \o " was not not found"),
            value |-> Float64(ParseFloat(<<"0">>)), err |-> "parameter nof found"]
    ELSE IF ~ParseFloat(raw).ok
      THEN [ops |-> Fault(400, InvalidParam, param \o " is invalid type"),
            value |-> Float64(ParseFloat(<<"0">>)), err |-> "parameter invalid"]
    ELSE [ops |-> <<>>, value |-> Float64(ParseFloat(raw)), err |-> "nil"]

\* ParseParamUUID(w, r, param), raw being chi.URLParam(r, param)
ParseParamUUID(param, raw) ==
    LET u == uuidParse(raw)
    IN IF ~u.ok
         THEN [ops |-> Fault(400, InvalidParam, u.err), value |-> NilUUID, err |-> u.err]
         ELSE [ops |-> <<>>, value |-> UUID(raw), err |-> "nil"]

\* ParseFloatQuery(w, r, param), raw being r.URL.Query().Get(param)
ParseFloatQuery(param, raw) ==
    IF raw = <<>>
      THEN [ops |-> Fault(400, InvalidParam, param \o " was not not found"),
            value |-> Float64(ParseFloat(<<"0">>)), err |-> "parameter nof found"]
    ELSE IF ~ParseFloat(raw).ok
      THEN [ops |-> Fault(400, InvalidParam, param \o " is invalid type"),
            value |-> Float64(ParseFloat(<<"0">>)), err |-> "parameter invalid"]
    ELSE [ops |-> <<>>, value |-> Float64(ParseFloat(raw)), err |-> "nil"]

\* the parameter values of the requests: absent, integers, decimals,
\* words, UUIDs
GoodUUID == <<"3", "b", "2", "e", "c", "8", "5", "3", "-", "8", "f", "8", "2", "-", "4", "c", "9", "8", "-", "b", "0", "a", "b", "-", "b", "3", "1", "8", "3", "8", "1", "5", "c", "8", "a", "a">>
BadUUID == <<"3", "b", "2", "e", "c", "8", "5", "3", "x", "8", "f", "8", "2", "-", "4", "c", "9", "8", "-", "b", "0", "a", "b", "-", "b", "3", "1", "8", "3", "8", "1", "5", "c", "8", "a", "a">>
Raws == { <<>>, <<"1", "1", "1", "1">>, <<"-", "5">>, <<"a", "s", "d", "a", "d">>, <<"1", "2", ".", "2", "2", "2">>, <<"1", ".">>, <<"1", ".", "2", ".", "3">>, <<"N", "a", "N">>, <<"+">>, GoodUUID, BadUUID }

ParamNames == {"accountID"}
ParseFns == {"ParseIDParam", "ParseFloatParam", "ParseParamUUID", "ParseFloatQuery"}

\* the status codes handed to WriteBody
BodyStatusCodes == {200, 201, 204, 404}

UtilResult(fn, a) ==
    CASE fn = "WriteBody" -> WriteBody(a.statusCode, a.body)
      [] fn = "ParseIDParam" -> ParseIDParam(a.param, a.raw)
      [] fn = "ParseFloatParam" -> ParseFloatParam(a.param, a.raw)
      [] fn = "ParseParamUUID" -> ParseParamUUID(a.param, a.raw)
      [] fn = "ParseFloatQuery" -> ParseFloatQuery(a.param, a.raw)

\* a handler calls the helper with the writer of a request just begun
UtilCall(fn, a) ==
    /\ utilPc = "idle"
    /\ utilPc' = "running"
    /\ utilFn' = fn
    /\ utilArgs' = a
    /\ ops' = UtilResult(fn, a).ops
    /\ UNCHANGED <<CorsAllowOrigins, corsArg, router, pc, idx, req, rctx, writers, resp,
                   counterVec, histogramVec, spans, calls, exit, panicking, written>>
    /\ UNCHANGED <<utilRet, lifeVars, swVars>>

\* the helper makes its next call on the writer
UtilStep ==
    /\ utilPc = "running"
    /\ ops # <<>>
    /\ resp' = ApplyAllResp(resp, Forward(writers, Head(ops)))
    /\ written' = Append(written, Head(ops))
    /\ ops' = Tail(ops)
    /\ UNCHANGED <<CorsAllowOrigins, corsArg, router, pc, idx, req, rctx, writers,
                   counterVec, histogramVec, spans, calls, exit, panicking>>
    /\ UNCHANGED <<utilVars, lifeVars, swVars>>

\* the helper returns
UtilReturn ==
    /\ utilPc = "running"
    /\ ops = <<>>
    /\ utilPc' = "returned"
    /\ utilRet' = [value |-> UtilResult(utilFn, utilArgs).value,
                   err |-> UtilResult(utilFn, utilArgs).err]
    /\ UNCHANGED <<pipeVars, utilFn, utilArgs, lifeVars, swVars>>

InitUtils == PipeIdle /\ LifeIdle /\ SwIdle /\ UtilIdle

NextUtils ==
    \/ \E statusCode \in BodyStatusCodes, body \in Bodies :
          UtilCall("WriteBody", [NoArgs EXCEPT !.statusCode = statusCode, !.body = body])
    \/ \E fn \in ParseFns, param \in ParamNames, raw \in Raws :
          UtilCall(fn, [NoArgs EXCEPT !.param = param, !.raw = raw])
    \/ UtilStep
    \/ UtilReturn

SpecUtils == InitUtils /\ [][NextUtils]_vars

\* ========================================================= the claims
Done == pc = "done"

InChain(name) == \E i \in DOMAIN router.middlewares : router.middlewares[i] = name

Entered(name) == \E i \in DOMAIN calls : calls[i].name = name

\* the five infrastructure paths, as the specification lists them
InfraPaths == { <<"">>, <<"status">>, <<"ready">>, <<"metrics">>, <<"*">> }

OriginalWriter == <<>>

\* the endpoint handler the router invoked
EndpointNames == {"GetStatus", "NotFound", "MethodNotAllowed", "business"}
EndpointCalls == {i \in DOMAIN calls : calls[i].name \in EndpointNames}

\* the last code a handler passed to WriteHeader, 200 when it passed none
RECURSIVE LastWriteHeader(_)
LastWriteHeader(log) ==
    IF log = <<>> THEN 200
    ELSE IF log[Len(log)].op = "WriteHeader" THEN log[Len(log)].code
    ELSE LastWriteHeader(SubSeq(log, 1, Len(log) - 1))

WriteHeaderCalls(log) == {i \in DOMAIN log : log[i].op = "WriteHeader"}

\* the status codes of the model, written in decimal
Decimal(code) ==
    CASE code = 200 -> "200" [] code = 204 -> "204" [] code = 302 -> "302"
      [] code = 404 -> "404" [] code = 405 -> "405" [] code = 500 -> "500"

\* ---- C1
ExemptSilent ==
    req.Path \in InfraPaths =>
        /\ counterVec = <<>>
        /\ histogramVec = <<>>
        /\ spans = <<>>
        /\ \A i \in DOMAIN calls : calls[i].w = OriginalWriter

\* C1 as stated: a request for one of the five infrastructure paths reaches
\* the next handler with the original writer and leaves no counter
\* increment, histogram observation or span; every other request leaves
\* exactly one of each.
C1_AlwaysOneObservation ==
    /\ ExemptSilent
    /\ (Done /\ req.Path \notin InfraPaths) =>
          /\ InChain("MetricsMiddleware") => Len(counterVec) = 1 /\ Len(histogramVec) = 1
          /\ InChain("TracingMiddleware") => Len(spans) = 1

\* C1 (amended): as above, but the counter increment and the histogram
\* observation are produced exactly once only when the wrapped handler
\* returns, and not at all when it panics; the span is produced exactly
\* once either way.
C1_ExemptOrOneObservation ==
    /\ ExemptSilent
    /\ Len(counterVec) <= 1 /\ Len(histogramVec) <= 1 /\ Len(spans) <= 1
    /\ ~InChain("MetricsMiddleware") => counterVec = <<>> /\ histogramVec = <<>>
    /\ ~InChain("TracingMiddleware") => spans = <<>>
    /\ (Done /\ req.Path \notin InfraPaths) =>
          /\ (InChain("MetricsMiddleware") /\ ~panicking) =>
                Len(counterVec) = 1 /\ Len(histogramVec) = 1
          /\ (InChain("MetricsMiddleware") /\ panicking) =>
                counterVec = <<>> /\ histogramVec = <<>>
          /\ InChain("TracingMiddleware") => Len(spans) = 1

C1_Witness ==
    /\ Done
    /\ req.Path = <<"users", "42">>
    /\ ~panicking
    /\ Len(counterVec) = 1
    /\ Len(histogramVec) = 1
    /\ Len(spans) = 1

OriginWritten == IF written = <<>> THEN "" ELSE written[1].value

CorsHeadersIn(h) ==
    /\ h["Access-Control-Allow-Origin"] = OriginWritten
    /\ h["Access-Control-Allow-Methods"] = "GET, POST, PUT, DELETE, OPTIONS"
    /\ h["Access-Control-Allow-Headers"] = "Content-Type, Authorization, User-Address, Token"
    /\ h["Access-Control-Max-Age"] = "3600"

\* handlers invoked below cors
AfterCors == {i \in DOMAIN calls : \E j \in 1..(i - 1) : calls[j].name = "cors"}

\* the response a handler's calls produce on a response of their own
OwnResponse(log) ==
    LET r == ApplyAllResp(NewResponse, log)
    IN IF r.wroteHeader THEN r ELSE baseWriteHeader(r, 200)

HandlerLog == SubSeq(written, Len(CorsHeaders(OriginWritten)) + 1, Len(written))

\* C4: with cors in the chain the four headers are set before anything else;
\* an OPTIONS request is answered 204 and the wrapped handler is not
\* invoked; any other request invokes the wrapped handler exactly once and
\* its own response is delivered.
C4_CorsPreflightOrDelegate ==
    Entered("cors") =>
        /\ CorsHeadersIn(resp.header)
        /\ SubSeq(written, 1, 4) = CorsHeaders(OriginWritten)
        /\ OriginWritten \in Origins \cup {""}
        /\ req.Method = "OPTIONS" =>
              /\ AfterCors = {}
              /\ resp.wroteHeader /\ resp.status = 204
              /\ CorsHeadersIn(resp.sentHeader)
        /\ (req.Method # "OPTIONS" /\ pc \in {"handler", "exit", "done"}) =>
              /\ Cardinality({i \in AfterCors : calls[i].name = "RealIP"}) = 1
              /\ Cardinality(AfterCors \cap EndpointCalls) = 1
        /\ (req.Method # "OPTIONS" /\ Done /\ ~panicking) =>
              /\ resp.status = OwnResponse(HandlerLog).status
              /\ resp.body = OwnResponse(HandlerLog).body
              /\ CorsHeadersIn(resp.sentHeader)
              /\ \A h \in {"Content-Type", "X-Content-Type-Options"} :
                    resp.sentHeader[h] = OwnResponse(HandlerLog).sentHeader[h]

C4_Witness ==
    /\ Done
    /\ Entered("cors")
    /\ req.Method = "OPTIONS"
    /\ resp.status = 204
    /\ AfterCors = {}

\* ---- C5
\* C5: the span of an instrumented request is ended exactly once, however
\* the wrapped handler exits: by returning, by returning early, or by a panic.
C5_SpanEndedOnce ==
    /\ \A i \in DOMAIN spans : spans[i].ended <= 1
    /\ \A i \in DOMAIN spans : (pc = "enter" \/ pc = "handler") => spans[i].ended = 0
    /\ Done => \A i \in DOMAIN spans : spans[i].ended = 1

C5_Witness ==
    /\ Done
    /\ panicking
    /\ Len(spans) = 1
    /\ spans[1].ended = 1

\* ---- C6
Attr(span, key) == {a.value : a \in {b \in {span.attributes[i] : i \in DOMAIN span.attributes} : b.key = key}}

TracingStatusCode == writers[CHOOSE i \in Owned(writers, "TracingMiddleware") : TRUE].StatusCode

\* C6: when the handler of an instrumented request returns, the span ends
\* named after the resolved route pattern, with extra_path the raw path,
\* the status code the Status-Capturing Writer recorded, the request
\* method, and status ok/"OK" for 2xx, error/"Client Error" for 4xx,
\* error/"Server Error" for 5xx and the message "Unhandled Status" otherwise.
C6_SpanAnnotated ==
    (Done /\ ~panicking /\ spans # <<>>) =>
        LET span == spans[1]
            c == TracingStatusCode
        IN /\ span.name = RoutePattern(rctx.RoutePatterns)
           /\ Attr(span, "extra_path") = {req.Path}
           /\ Attr(span, "http.status_code") = {c}
           /\ Attr(span, "http.method") = {req.Method}
           /\ (c >= 200 /\ c < 300) => span.status = [code |-> "Ok", description |-> "OK"]
           /\ (c >= 400 /\ c < 500) => span.status = [code |-> "Error", description |-> "Client Error"]
           /\ c >= 500 => span.status = [code |-> "Error", description |-> "Server Error"]
           /\ (c < 200 \/ (c >= 300 /\ c < 400)) => span.status.description = "Unhandled Status"

\* ---- C7
Position(name) == CHOOSE i \in DOMAIN calls : calls[i].name = name

FixedOrder == <<"StripSlashes", "MetricsMiddleware", "TracingMiddleware", "cors", "RealIP">>

OrderIndex(name) == CHOOSE i \in DOMAIN FixedOrder : FixedOrder[i] = name

\* C7: in a router built by New or NewEmpty the middlewares run in the order
\* trailing-slash normalization, metrics, tracing, CORS, client-IP
\* normalization; metrics wraps tracing whenever both are enabled.
C7_MiddlewareOrder ==
    \A a, b \in {n \in {FixedOrder[i] : i \in DOMAIN FixedOrder} : Entered(n)} :
        OrderIndex(a) < OrderIndex(b) => Position(a) < Position(b)

\* ---- C8
\* C8: in a router built by New, whatever sub-routers are mounted, GET "/",
\* GET "/ready" and GET "/status" are answered by the fixed status handler
\* with 200 and {"message":"OK"}.
C8_StatusEndpointsNeverShadowed ==
    (Done /\ router.ctor = "New" /\ req.Method = "GET"
       /\ req.Path \in { <<"">>, <<"ready">>, <<"status">> }) =>
        /\ \A i \in EndpointCalls : calls[i].name = "GetStatus"
        /\ resp.status = 200
        /\ resp.body = <<"{\"message\":\"OK\"}">>

\* ---- C9
Returned == gsPc = "returned"

TimeoutError == "context deadline exceeded"

\* requests that were in flight when the signal was taken
InFlightAtSignal == {i \in DOMAIN conns : conns[i].state = "active" \/ conns[i].doneAt >= quitAt}

C9_WitnessTimeout ==
    /\ Returned
    /\ gsErr = TimeoutError
    /\ now = quitAt + gracefulTimeout
    /\ gracefulTimeout > 0

\* ---- C10
\* C10: once GracefulShutdown has returned the timeout error, no handler is
\* still running on an open connection of the server.
C10_ForcedStopLeavesNoHandler ==
    (Returned /\ gsErr = TimeoutError) => Active(conns) = {}

\* ---- C11
\* the state of the server handle, as the lifecycle's state machine names it
HandleStateOf(sErr, gPc, inSh, sPc) ==
    IF sErr # "nil" THEN "start-failed"
    ELSE IF gPc = "returned" THEN "stopped"
    ELSE IF inSh THEN "draining"
    ELSE IF sPc = "serving" THEN "serving"
    ELSE "constructed"

HandleState == HandleStateOf(startErr, gsPc, inShutdown, startPc)

LinearPath == { <<"constructed", "serving">>, <<"serving", "draining">>,
                <<"draining", "stopped">>, <<"constructed", "start-failed">> }

StartReturned == startPc = "returned"

ErrServerClosed == "http: Server closed"

\* C12: Start returns a non-nil error exactly when ListenAndServe failed for
\* a reason other than the server having been shut down, and then that very
\* error; ListenAndServe ending with ErrServerClosed, which it does only on
\* a server that was shut down, makes Start return nil.
C12_StartErrorIffRealFailure ==
    /\ ~StartReturned => startErr = "nil"
    /\ StartReturned =>
          /\ serveErr # "nil"
          /\ startErr # "nil" <=> serveErr # ErrServerClosed
          /\ startErr # "nil" => startErr = serveErr /\ listener = "none"
          /\ serveErr = ErrServerClosed => inShutdown /\ startErr = "nil"
          /\ (~inShutdown) => serveErr = "listen error"

C12_Witness ==
    /\ StartReturned
    /\ serveErr = ErrServerClosed
    /\ startErr = "nil"
    /\ conns # <<>>

\* ---- C13
ShutdownBegun == gsPc \in {"check", "select", "returned"}

\* C13: however many SIGINT/SIGTERM signals are delivered, before or during
\* draining, one call of GracefulShutdown invokes server.Shutdown exactly
\* once (and only after taking a signal), the listening socket is closed at
\* most once, at most one signal stays buffered, and the process is not
\* brought down once GracefulShutdown has been called.
C13_ShutdownExactlyOnce ==
    /\ shutdowns <= 1
    /\ lnCloses <= 1
    /\ quit <= 1
    /\ ShutdownBegun <=> shutdowns = 1
    /\ ShutdownBegun => signals >= 1
    /\ gsPc # "idle" => alive
    /\ (StartReturned /\ serveErr = ErrServerClosed /\ listener = "closed") => lnCloses = 1

C13_Witness ==
    /\ gsPc = "returned"
    /\ StartReturned
    /\ signals = MaxSignals
    /\ quit = 1
    /\ shutdowns = 1
    /\ lnCloses = 1

\* ---- C14
\* C14: a router built by New with CORS enabled sends, for as long as it
\* lives, the corsAllowOrigins it was built with as
\* Access-Control-Allow-Origin, whatever later calls of New pass.
C14_CorsPolicyImmutable ==
    (router.ctor = "New" /\ corsArg.setCors /\ Entered("cors")) =>
        /\ resp.header["Access-Control-Allow-Origin"] = corsArg.corsAllowOrigins
        /\ resp.wroteHeader => resp.sentHeader["Access-Control-Allow-Origin"] = corsArg.corsAllowOrigins

\* ---- C15
\* the response of a server whose handler chain makes the calls of log
\* directly on the server's writer
Uninstrumented(log, done, panicked) ==
    LET r == ApplyAllResp(NewResponse, log)
    IN IF ~done THEN r
       ELSE IF panicked THEN [r EXCEPT !.aborted = TRUE]
       ELSE IF r.wroteHeader THEN r ELSE baseWriteHeader(r, 200)

\* the routing context StripSlashes leaves for the router
Stripped(path) ==
    IF LongerThanOne(path) /\ EndsWithSlash(path)
      THEN [NoRctx EXCEPT !.RoutePath = DropLastChar(path)] ELSE NoRctx

\* C15: with MetricsMiddleware and/or TracingMiddleware in the chain, the
\* request reaches the endpoint it reaches without them, and status,
\* headers and body delivered to the client are those the same calls
\* (Header, WriteHeader, Write) give when made directly on the server's
\* writer; a StatusWriter only records the code.
C15_InstrumentationTransparent ==
    /\ resp = Uninstrumented(written, Done, panicking)
    /\ \A i \in EndpointCalls :
          calls[i].name = Dispatch(router.tree, req.Method, req.Path, Stripped(req.Path)).handler
    /\ \A i \in DOMAIN writers :
          writers[i].StatusCode = LastWriteHeader(written)

C15_Witness ==
    /\ Done
    /\ Len(writers) = 2
    /\ written = <<W("b"), WH(404)>>
    /\ resp.status = 200
    /\ resp.body = <<"b">>

\* ---- C16
\* C16: when the handler of an instrumented request has returned, the
\* StatusCode every StatusWriter of the request holds is the status code the
\* client received, whatever WriteHeader and Write calls the handler made.
C16_RecordedIsDelivered ==
    (Done /\ ~panicking) =>
        \A i \in DOMAIN writers : writers[i].StatusCode = resp.status

\* ---- C17
NoWriteHeader == WriteHeaderCalls(written) = {}

\* C17: as long as WriteHeader has not been called, every StatusWriter of
\* the request holds 200 and GetStatus classifies it as success; a request
\* whose handler only writes a body, or writes nothing, is recorded with
\* status 200 by the counter, the histogram and the span.
C17_NoWriteHeaderMeans200 ==
    NoWriteHeader =>
        /\ \A i \in DOMAIN writers :
              /\ writers[i].StatusCode = 200
              /\ GetStatus(writers[i].StatusCode).code = "Ok"
        /\ \A i \in DOMAIN counterVec : counterVec[i].status = "200"
        /\ \A i \in DOMAIN histogramVec : histogramVec[i].status = "200"
        /\ \A i \in DOMAIN spans :
              spans[i].statusSet =>
                  /\ Attr(spans[i], "http.status_code") = {200}
                  /\ spans[i].status.code = "Ok"
        /\ (Done /\ ~panicking) =>
              /\ InChain("MetricsMiddleware") /\ req.Path \notin InfraPaths
                    => Len(counterVec) = 1 /\ Len(histogramVec) = 1
              /\ InChain("TracingMiddleware") /\ req.Path \notin InfraPaths
                    => Len(spans) = 1 /\ spans[1].statusSet

C17_Witness ==
    /\ Done
    /\ ~panicking
    /\ calls[Len(calls)].name = "business"
    /\ written \in {<<>>, <<W("b")>>}
    /\ Len(counterVec) = 1
    /\ counterVec[1].status = "200"
    /\ Len(spans) = 1
    /\ Attr(spans[1], "http.status_code") = {200}

\* ---- C18
IsPrefix(a, b) == Len(a) <= Len(b) /\ a = SubSeq(b, 1, Len(a))

UtilReturned == utilPc = "returned"

\* what encoding/json gives for the values of the model
ExpectedJSON(body) ==
    CASE body = [t |-> "struct", ID |-> 1, Name |-> "example"] -> "{\"ID\":1,\"Name\":\"example\"}"
      [] body = [t |-> "string", s |-> "hello"] -> "\"hello\""
      [] body = [t |-> "int", n |-> 12] -> "12"
      [] body = [t |-> "float", f |-> "1.5"] -> "1.5"
      [] body = [t |-> "float", f |-> "+Inf"] -> "json: unsupported value: +Inf"
      [] body = [t |-> "float", f |-> "NaN"] -> "json: unsupported value: NaN"

Encodable(body) == ~(body.t = "float" /\ body.f \in {"+Inf", "-Inf", "NaN"})

FaultBody(code, message) ==
    "{\"code\":\"" \o code \o "\",\"message\":\"" \o message \o "\",\"msg\":\"" \o message \o "\"}\n"

\* C18: WriteBody on a body that can be encoded sets the JSON content type,
\* writes the caller's status code and the encoding, in this order and
\* nothing else, and returns nil; on a body that cannot be encoded it
\* writes the 500 fault with code internal_server_error and the encoder's
\* message, at no time the caller's status code or an encoding of the body,
\* and returns the encoder's error.
C18_WriteBodyAllOrNothing ==
    (utilFn = "WriteBody" /\ utilPc # "idle") =>
        LET a == utilArgs
            good == <<HSet("Content-Type", "application/json; charset=utf-8"),
                      WH(a.statusCode), W(ExpectedJSON(a.body))>>
            bad == <<HSet("Content-Type", "application/json; charset=utf-8"), WH(500),
                     W(FaultBody("internal_server_error", ExpectedJSON(a.body)))>>
        IN /\ Encodable(a.body) =>
                /\ IsPrefix(written, good)
                /\ UtilReturned =>
                      /\ written = good
                      /\ utilRet.err = "nil"
                      /\ resp.wroteHeader /\ resp.status = a.statusCode
                      /\ resp.sentHeader["Content-Type"] = "application/json; charset=utf-8"
                      /\ bodyAllowedForStatus(a.statusCode) => resp.body = <<ExpectedJSON(a.body)>>
           /\ ~Encodable(a.body) =>
                /\ IsPrefix(written, bad)
                /\ \A i \in DOMAIN written : written[i] # WH(a.statusCode)
                /\ UtilReturned =>
                      /\ written = bad
                      /\ utilRet.err = ExpectedJSON(a.body)
                      /\ resp.status = 500
                      /\ resp.body = <<FaultBody("internal_server_error", ExpectedJSON(a.body))>>

C18_Witness ==
    /\ utilFn = "WriteBody"
    /\ UtilReturned
    /\ utilArgs.body = [t |-> "float", f |-> "+Inf"]
    /\ utilArgs.statusCode = 200
    /\ utilRet.err = "json: unsupported value: +Inf"
    /\ resp.status = 500

\* ---- C19
\* the values the requests of the model carry, parsed
ExpectedValue(fn, raw) ==
    CASE fn = "ParseIDParam" /\ raw = <<"1", "1", "1", "1">> -> [t |-> "int64", n |-> 1111]
      [] fn = "ParseIDParam" /\ raw = <<"-", "5">> -> [t |-> "int64", n |-> 0 - 5]
      [] fn \in {"ParseFloatParam", "ParseFloatQuery"} /\ raw = <<"1", "1", "1", "1">> ->
           [t |-> "float64", special |-> "", num |-> 1111, den |-> 1]
      [] fn \in {"ParseFloatParam", "ParseFloatQuery"} /\ raw = <<"-", "5">> ->
           [t |-> "float64", special |-> "", num |-> 0 - 5, den |-> 1]
      [] fn \in {"ParseFloatParam", "ParseFloatQuery"} /\ raw = <<"1", "2", ".", "2", "2", "2">> ->
           [t |-> "float64", special |-> "", num |-> 12222, den |-> 1000]
      [] fn \in {"ParseFloatParam", "ParseFloatQuery"} /\ raw = <<"1", ".">> ->
           [t |-> "float64", special |-> "", num |-> 1, den |-> 1]
      [] fn \in {"ParseFloatParam", "ParseFloatQuery"} /\ raw = <<"N", "a", "N">> ->
           [t |-> "float64", special |-> "NaN", num |-> 0, den |-> 1]
      [] fn = "ParseParamUUID" /\ raw = GoodUUID -> [t |-> "uuid", u |-> GoodUUID]
      [] OTHER -> [t |-> "invalid"]

IsFault400(log) ==
    /\ Len(log) = 3
    /\ log[1] = HSet("Content-Type", "application/json; charset=utf-8")
    /\ log[2] = WH(400)
    /\ log[3].op = "Write"
    /\ \E message \in {"accountID was not not found", "accountID is invalid type",
                         "invalid UUID format", "invalid UUID length: 0",
                         "invalid UUID length: 1", "invalid UUID length: 2",
                         "invalid UUID length: 3", "invalid UUID length: 4",
                         "invalid UUID length: 5", "invalid UUID length: 6"} :
          log[3].value = FaultBody("invalid_param", message)

\* C19: ParseIDParam, ParseFloatParam, ParseFloatQuery and ParseParamUUID
\* return a non-nil error exactly when they have written one 400 fault with
\* code invalid_param, which they do exactly for a parameter that is
\* missing or of the wrong type; with a nil error nothing was written and
\* the value returned is the parsed parameter.
C19_ParseErrorIffFault ==
    (utilFn \in ParseFns /\ UtilReturned) =>
        LET valid == ExpectedValue(utilFn, utilArgs.raw).t # "invalid"
        IN /\ utilRet.err # "nil" <=> written # <<>>
           /\ utilRet.err # "nil" <=> ~valid
           /\ utilRet.err # "nil" =>
                 /\ IsFault400(written)
                 /\ resp.status = 400
                 /\ resp.body = <<written[3].value>>
           /\ utilRet.err = "nil" =>
                 /\ written = <<>>
                 /\ ~resp.wroteHeader
                 /\ utilRet.value = ExpectedValue(utilFn, utilArgs.raw)

C19_Witness ==
    /\ utilFn = "ParseIDParam"
    /\ UtilReturned
    /\ utilArgs.raw = <<>>
    /\ utilRet.err # "nil"
    /\ resp.status = 400

\* ---- C20
\* a raw path that is an infrastructure path followed by a slash
SlashedInfraPath(path) ==
    /\ LongerThanOne(path)
    /\ EndsWithSlash(path)
    /\ DropLastChar(path) \in InfraPaths

\* C20: in a router built by New a request for an infrastructure path
\* followed by a slash, such as /status/, is exempt like the path without
\* the slash: the middlewares pass the original writer on and no counter
\* increment, histogram observation or span is produced.
C20_SlashedExemptIsExempt ==
    (router.ctor = "New" /\ SlashedInfraPath(req.Path)) =>
        /\ counterVec = <<>>
        /\ histogramVec = <<>>
        /\ spans = <<>>
        /\ \A i \in DOMAIN calls : calls[i].w = OriginalWriter

\* ---- C21
\* C21: in a router built by New with cors and with metrics and/or tracing,
\* an OPTIONS request for a path that is not an infrastructure path reaches
\* no endpoint handler, is answered 204, and is recorded exactly once by
\* each enabled observer, with status 204.
C21_PreflightObservedAs204 ==
    (Done /\ router.ctor = "New" /\ InChain("cors")
       /\ req.Method = "OPTIONS" /\ req.Path \notin InfraPaths) =>
        /\ EndpointCalls = {}
        /\ resp.status = 204
        /\ InChain("MetricsMiddleware") =>
              /\ Len(counterVec) = 1 /\ counterVec[1].status = "204"
              /\ Len(histogramVec) = 1 /\ histogramVec[1].status = "204"
        /\ InChain("TracingMiddleware") =>
              /\ Len(spans) = 1
              /\ Attr(spans[1], "http.status_code") = {204}
              /\ spans[1].status.code = "Ok"

C21_Witness ==
    /\ Done
    /\ router.ctor = "New"
    /\ req = [Method |-> "OPTIONS", Path |-> <<"users", "42">>]
    /\ EndpointCalls = {}
    /\ Len(counterVec) = 1 /\ counterVec[1].status = "204"
    /\ Len(spans) = 1 /\ Attr(spans[1], "http.status_code") = {204}

\* ---- C22
SignalPending == gsPc = "waiting" /\ quit > 0

\* C22: once a SIGINT/SIGTERM is delivered while GracefulShutdown waits,
\* GracefulShutdown eventually returns, not later than the grace period
\* after taking the signal, also with a handler still running; as long as
\* no signal has been delivered it stays blocked and server.Shutdown is not
\* begun.
C22_ReturnsWithinGraceAfterSignal ==
    /\ [](signals = 0 => (gsPc \in {"idle", "waiting"} /\ ~inShutdown /\ shutdowns = 0))
    /\ [][(~Returned /\ Returned') => now' <= quitAt' + gracefulTimeout']_vars
    /\ (SignalPending ~> Returned)

C22_Witness ==
    /\ Returned
    /\ gsErr = TimeoutError
    /\ gracefulTimeout > 0
    /\ now = quitAt + gracefulTimeout
    /\ \E i \in Active(conns) : conns[i].left = Hangs

\* ---- C23
BothInstrumented == InChain("MetricsMiddleware") /\ InChain("TracingMiddleware")

\* C23: with MetricsMiddleware and TracingMiddleware both in the chain, in
\* either order, the two StatusWriters of a request hold the same code after
\* every call of the handler, and once the request has both a metrics
\* observation and a span attribute http.status_code, the status label of
\* the counter and of the histogram is the decimal form of that attribute;
\* a request that ends with an observation has the attribute too.
C23_LabelEqualsSpanAttribute ==
    BothInstrumented =>
        /\ \A i, j \in DOMAIN writers : writers[i].StatusCode = writers[j].StatusCode
        /\ \A vec \in {counterVec, histogramVec} : \A i \in DOMAIN vec :
              /\ Len(spans) = 1
              /\ \A c \in Attr(spans[1], "http.status_code") : vec[i].status = Decimal(c)
              /\ Done => \E c \in StatusCodes : Attr(spans[1], "http.status_code") = {c}

C23_Witness ==
    /\ Done
    /\ BothInstrumented
    /\ written = <<WH(404), WH(500)>>
    /\ Len(counterVec) = 1 /\ counterVec[1].status = "500"
    /\ Len(histogramVec) = 1 /\ histogramVec[1].status = "500"
    /\ Len(spans) = 1 /\ Attr(spans[1], "http.status_code") = {500}

\* ---- C24
\* C24: a panic of the wrapped handler of a non-exempt request reaches
\* net/http through both middlewares; no counter increment and no histogram
\* observation is made for the request, and its span is ended, once, still
\* named after the raw path, with no status and no attributes set.
C24_PanicSkipsInstrumentation ==
    (panicking /\ ~CheckInValidPath(req.Path)) =>
        /\ counterVec = <<>>
        /\ histogramVec = <<>>
        /\ \A i \in DOMAIN spans :
              /\ spans[i].name = req.Path
              /\ ~spans[i].statusSet
              /\ spans[i].status = [code |-> "Unset", description |-> ""]
              /\ spans[i].attributes = <<>>
              /\ spans[i].ended <= 1
        /\ Done =>
              /\ resp.aborted
              /\ InChain("TracingMiddleware") => (Len(spans) = 1 /\ spans[1].ended = 1)

C24_Witness ==
    /\ Done
    /\ panicking
    /\ BothInstrumented
    /\ req.Path = <<"users", "42">>
    /\ written = <<WH(500)>>
    /\ counterVec = <<>> /\ histogramVec = <<>>
    /\ Len(spans) = 1
    /\ spans[1] = [StartSpan(<<"users", "42">>) EXCEPT !.ended = 1]

====
